---- MODULE Spec2Model ----
(***************************************************************************)
(* Model of the BL531 beamline clients:                                    *)
(*   - BL531API     (src/src/bl531/BL531API.py): validate, submit a plan   *)
(*     to the queue server, start the queue, poll the history;             *)
(*   - BL531DataAPI (src/src/bl531/BL531DataAPI.py): read a run's primary  *)
(*     stream from the catalog and sort its arrays into buckets.           *)
(* A process owns one instance of each client (the module-level            *)
(* singletons bl531 and bl531_data) and is single-threaded: it runs one    *)
(* operation at a time.  The queue server is shared by the processes.      *)
(* Time is counted in whole seconds; an HTTP call takes no time, and       *)
(* time.sleep(1) takes one second.                                         *)
(***************************************************************************)
EXTENDS Integers, Sequences, FiniteSets, TLC

\* ------------------------------------------------------------------------
\* Bounds of the model
\* ------------------------------------------------------------------------
\* operations one process performs
MaxCalls == 2
\* length of a detectors argument
MaxDetectors == 2
\* the timeout of _wait_for_completion in seconds (300 in the source),
\* scaled down
Timeout == 2

\* arrays in the primary stream of a run
MaxKeys == 2
\* the limit argument of list_runs and the runs in the catalog
MaxLimit == 2
MaxRuns == 2

Procs == {"c1", "c2"}

\* ------------------------------------------------------------------------
\* Configuration (BL531API.py:30-42)
\* ------------------------------------------------------------------------
BL531_MOTORS ==
    {"hexapod_motor_Ry", "hexapod_motor_Rz", "hexapod_motor_Ty",
     "hexapod_motor_Tz", "gi_angle", "mono_energy"}

BL531_DETECTORS == {"diode", "det"}

\* names a caller may pass
DetectorNames == BL531_DETECTORS \cup {"non-existing"}
MotorNames == BL531_MOTORS \cup {"hexapod_motor_Tx", "diode"}

SeqsUpTo(S, n) == UNION {[1..k -> S] : k \in 0..n}
DetectorLists == SeqsUpTo(DetectorNames, MaxDetectors)

Range(s) == {s[i] : i \in DOMAIN s}

\* ------------------------------------------------------------------------
\* Values
\* ------------------------------------------------------------------------
NoUid == <<"none", 0>>
\* the run_uids the queue server may report for an executed plan
RunUidLists == {<< >>, << <<"run", 1>> >>, << <<"run", 2>>, <<"run", 1>> >>}
ExitStatuses == {"completed", "failed", "aborted", "unknown"}
PlanNames == {"count", "scan", "automatic_gisaxs_alignment",
              "automatic_diode_alignment"}

NoArgs == [detectors |-> << >>, motor |-> "none"]

\* A faulty variant of ResultName: the diode alignment reports the name of
\* the GISAXS alignment
ResultNameCopied ==
    [count |-> "count",
     scan |-> "scan",
     automatic_gisaxs_alignment |-> "automatic_gisaxs_alignment",
     automatic_diode_alignment |-> "automatic_gisaxs_alignment"]

\* plan_name in the return statement of each plan method
ResultName ==
    [count |-> "count",
     scan |-> "scan",
     automatic_gisaxs_alignment |-> "automatic_gisaxs_alignment",
     automatic_diode_alignment |-> "automatic_diode_alignment"]

\* plan_dict["item"]["name"] of each plan method
ItemName ==
    [count |-> "count",
     scan |-> "scan",
     automatic_gisaxs_alignment |-> "automatic_gisaxs_alignment",
     automatic_diode_alignment |-> "automatic_diode_alignment"]
NoResult == [kind |-> "none"]

VARIABLES
    conn,        \* BL531API.base_url, api_key and headers of each process
    mock_mode,   \* BL531API.mock_mode of each process
    data_mock,   \* BL531DataAPI.mock_mode of each process
    reads,       \* arrays the running operation has read from the catalog
    pc,          \* position of each process: "idle", inside an operation,
                 \* or "done" when the operation has returned or raised
    op,          \* the operation each process has invoked
    args,        \* and the names it was invoked with, kept until the plan
                 \* built from them has been posted
    calls,       \* operations each process has started
    item_uid,    \* item_uid returned by the add-item POST
    elapsed,     \* time.time() - start_time of the running wait
    history,     \* the last decoded history response ("items")
    reqs,        \* HTTP requests the running operation has issued so far
    outcome,     \* how the operation ended ("none" while it runs)
    result,      \* the value the operation returned
    uuid_count,  \* uuid4 values generated so far
    queue,       \* queue server: items waiting
    running,     \* queue server: queue is running
    hist,        \* queue server: history of executed items
    next_item,   \* queue server: item_uids handed out so far
    busy_start,  \* the queue was already running when the start-queue POST
                 \* of the running call arrived
    cap,         \* the capability whose execute each process is in
    stage,       \* and its position in it
    propagated,  \* the exception execute has raised, with its cause
    classified,  \* what classify_error made of that exception
    heap,        \* the dict objects allocated for RunData instances
    held         \* the RunData instances each process has been returned

capVars == <<cap, stage, propagated, classified>>
heapVars == <<heap, held>>

vars == <<conn, mock_mode, data_mock, reads, pc, op, args, calls, item_uid,
          elapsed, history, reqs, outcome, result, uuid_count, queue, running,
          hist, next_item, busy_start, capVars, heapVars>>

clientVars == <<pc, op, args, calls, item_uid, elapsed, history, reqs,
                outcome, result, uuid_count>>
serverVars == <<queue, running, hist, next_item>>

\* ------------------------------------------------------------------------
\* Pure helpers of BL531API
\* ------------------------------------------------------------------------
\* A faulty variant of ValidateDetectors: an empty list is refused
ValidateDetectorsNonEmpty(detectors) ==
    /\ detectors # << >>
    /\ Range(detectors) \ BL531_DETECTORS = {}

\* A faulty variant of ValidateDetectors: only the first name is checked
ValidateDetectorsFirstOnly(detectors) ==
    detectors = << >> \/ detectors[1] \in BL531_DETECTORS

\* _validate_detectors: invalid = set(detectors) - BL531_DETECTORS;
\* TRUE when no ValueError is raised
ValidateDetectors(detectors) == Range(detectors) \ BL531_DETECTORS = {}

\* A faulty variant of ValidateMotor: any hexapod axis is accepted
ValidateMotorAnyAxis(motor) ==
    motor \in BL531_MOTORS \cup {"hexapod_motor_Tx"}

\* _validate_motor: TRUE when no ValueError is raised
ValidateMotor(motor) == motor \in BL531_MOTORS

\* A faulty variant of ScanHistory: a completed entry without run_uids is
\* taken for a failure
RECURSIVE ScanHistoryCompletedEnds(_, _)
ScanHistoryCompletedEnds(items, uid) ==
    IF items = << >> THEN [kind |-> "none", run_uid |-> NoUid]
    ELSE LET entry == Head(items) IN
         IF entry.item_uid = uid
         THEN IF entry.run_uids # << >> /\ entry.exit_status = "completed"
              THEN [kind |-> "return", run_uid |-> entry.run_uids[1]]
              ELSE IF entry.exit_status \in {"failed", "unknown", "completed"}
                   THEN [kind |-> "raise", run_uid |-> NoUid]
                   ELSE ScanHistoryCompletedEnds(Tail(items), uid)
         ELSE ScanHistoryCompletedEnds(Tail(items), uid)

\* A faulty variant of ScanHistory: the last run_uid is returned
RECURSIVE ScanHistoryLastRun(_, _)
ScanHistoryLastRun(items, uid) ==
    IF items = << >> THEN [kind |-> "none", run_uid |-> NoUid]
    ELSE LET entry == Head(items) IN
         IF entry.item_uid = uid
         THEN IF entry.run_uids # << >> /\ entry.exit_status = "completed"
              THEN [kind |-> "return",
                    run_uid |-> entry.run_uids[Len(entry.run_uids)]]
              ELSE IF entry.exit_status \in {"failed", "unknown"}
                   THEN [kind |-> "raise", run_uid |-> NoUid]
                   ELSE ScanHistoryLastRun(Tail(items), uid)
         ELSE ScanHistoryLastRun(Tail(items), uid)

\* A faulty variant of ScanHistory: the entry's item_uid is not compared
RECURSIVE ScanHistoryAnyItem(_, _)
ScanHistoryAnyItem(items, uid) ==
    IF items = << >> THEN [kind |-> "none", run_uid |-> NoUid]
    ELSE LET entry == Head(items) IN
         IF entry.run_uids # << >> /\ entry.exit_status = "completed"
         THEN [kind |-> "return", run_uid |-> entry.run_uids[1]]
         ELSE IF entry.exit_status \in {"failed", "unknown"}
              THEN [kind |-> "raise", run_uid |-> NoUid]
              ELSE ScanHistoryAnyItem(Tail(items), uid)

\* The for loop of _wait_for_completion over history["items"]: the first
\* entry of the submitted item that makes the loop return or raise decides.
RECURSIVE ScanHistory(_, _)
ScanHistory(items, uid) ==
    IF items = << >> THEN [kind |-> "none", run_uid |-> NoUid]
    ELSE LET entry == Head(items) IN
         IF entry.item_uid = uid
         THEN IF entry.run_uids # << >> /\ entry.exit_status = "completed"
              THEN [kind |-> "return", run_uid |-> entry.run_uids[1]]
              ELSE IF entry.exit_status \in {"failed", "unknown"}
                   THEN [kind |-> "raise", run_uid |-> NoUid]
                   ELSE ScanHistory(Tail(items), uid)
         ELSE ScanHistory(Tail(items), uid)

\* A faulty variant of TimedOut: the wait gives up when elapsed reaches the
\* timeout
TimedOutAtLimit(e) == e >= Timeout

\* A faulty variant of TimedOut: the timeout is taken for milliseconds
TimedOutMillis(e) == e > Timeout * 1000

\* The timeout test at the top of the while loop
TimedOut(e) == e > Timeout

\* ------------------------------------------------------------------------
\* Initial state: the clients after construction, an idle empty queue server
\* ------------------------------------------------------------------------
\* the constructor arguments of the module-level instance bl531
BaseUrl(mock) ==
    IF mock THEN "http://mock-server:60610" ELSE "http://192.168.10.155:60610"
ApiKey(mock) == IF mock THEN "mock" ELSE "test"

\* BL531API.__init__: the connection attributes
Connection(base_url, api_key) ==
    [base_url |-> base_url,
     api_key |-> api_key,
     headers |-> [content_type |-> "application/json",
                  authorization |-> <<"Apikey", api_key>>]]

\* no exception has left execute
NoException == [cause |-> "none", class |-> "none"]

InitCommon ==
    /\ pc = [c \in Procs |-> "idle"]
    /\ op = [c \in Procs |-> "none"]
    /\ args = [c \in Procs |-> NoArgs]
    /\ reads = [c \in Procs |-> {}]
    /\ calls = [c \in Procs |-> 0]
    /\ item_uid = [c \in Procs |-> 0]
    /\ elapsed = [c \in Procs |-> 0]
    /\ history = [c \in Procs |-> << >>]
    /\ reqs = [c \in Procs |-> << >>]
    /\ outcome = [c \in Procs |-> "none"]
    /\ result = [c \in Procs |-> NoResult]
    /\ uuid_count = 0
    /\ queue = << >>
    /\ running = FALSE
    /\ hist = << >>
    /\ next_item = 0
    /\ busy_start = [c \in Procs |-> FALSE]
    /\ conn = [c \in Procs |->
                 Connection(BaseUrl(mock_mode[c]), ApiKey(mock_mode[c]))]
    /\ cap = [c \in Procs |-> "none"]
    /\ stage = [c \in Procs |-> "none"]
    /\ propagated = [c \in Procs |-> NoException]
    /\ classified = [c \in Procs |-> [severity |-> "none", type |-> "none"]]
    /\ heap = << >>
    /\ held = [c \in Procs |-> << >>]

\* ------------------------------------------------------------------------
\* Ending an operation
\* ------------------------------------------------------------------------
Raise(c, exc) ==
    /\ pc' = [pc EXCEPT ![c] = "done"]
    /\ outcome' = [outcome EXCEPT ![c] = exc]
    /\ result' = [result EXCEPT ![c] = NoResult]

ReturnPlanResult(c, uid, name) ==
    /\ pc' = [pc EXCEPT ![c] = "done"]
    /\ outcome' = [outcome EXCEPT ![c] = "PlanResult"]
    /\ result' = [result EXCEPT ![c] =
                    [kind |-> "PlanResult", run_uid |-> uid, plan_name |-> name]]

\* _mock_plan_execution: a PlanResult with run_uid = str(uuid.uuid4())
MockPlanExecution(c, name) ==
    /\ uuid_count' = uuid_count + 1
    /\ ReturnPlanResult(c, <<"uuid", uuid_count + 1>>, name)

\* the part of a plan method after validation and the mock branch:
\* plan_dict is built from the method's name and arguments and _submit_plan
\* is entered
BuildPlan(c) ==
    /\ pc' = [pc EXCEPT ![c] = "add"]
    /\ outcome' = [outcome EXCEPT ![c] = "none"]
    /\ result' = [result EXCEPT ![c] = NoResult]
    /\ UNCHANGED uuid_count

\* a process enters an operation
Enter(c, name, detectors, motor) ==
    /\ pc[c] = "idle"
    /\ op' = [op EXCEPT ![c] = name]
    /\ args' = [args EXCEPT ![c] = [detectors |-> detectors, motor |-> motor]]
    /\ calls[c] < MaxCalls
    /\ calls' = [calls EXCEPT ![c] = @ + 1]
    /\ item_uid' = [item_uid EXCEPT ![c] = 0]
    /\ elapsed' = [elapsed EXCEPT ![c] = 0]
    /\ history' = [history EXCEPT ![c] = << >>]

\* a process enters a plan method of BL531API
EnterPlan(c, name, detectors, motor) ==
    /\ Enter(c, name, detectors, motor)
    /\ reqs' = [reqs EXCEPT ![c] = << >>]
    /\ reads' = [reads EXCEPT ![c] = {}]

\* ------------------------------------------------------------------------
\* The plan methods of BL531API, up to the first HTTP request
\* ------------------------------------------------------------------------
count(c, detectors) ==
    /\ EnterPlan(c, "count", detectors, "none")
    /\ IF ~ValidateDetectors(detectors)
       THEN Raise(c, "ValueError") /\ UNCHANGED uuid_count
       ELSE IF mock_mode[c]
            THEN MockPlanExecution(c, "count")
            ELSE BuildPlan(c)
    /\ UNCHANGED <<conn, mock_mode, data_mock, serverVars, busy_start, heapVars>>

scan(c, detectors, motor) ==
    /\ EnterPlan(c, "scan", detectors, motor)
    /\ IF ~ValidateDetectors(detectors)
       THEN Raise(c, "ValueError") /\ UNCHANGED uuid_count
       ELSE IF ~ValidateMotor(motor)
            THEN Raise(c, "ValueError") /\ UNCHANGED uuid_count
            ELSE IF mock_mode[c]
                 THEN MockPlanExecution(c, "scan")
                 ELSE BuildPlan(c)
    /\ UNCHANGED <<conn, mock_mode, data_mock, serverVars, busy_start, heapVars>>

automatic_gisaxs_alignment(c) ==
    /\ EnterPlan(c, "automatic_gisaxs_alignment", << >>, "none")
    /\ IF mock_mode[c]
       THEN MockPlanExecution(c, "automatic_gisaxs_alignment")
       ELSE BuildPlan(c)
    /\ UNCHANGED <<conn, mock_mode, data_mock, serverVars, busy_start, heapVars>>

\* A faulty variant of automatic_diode_alignment: the mock branch is missing
automatic_diode_alignment_NoMock(c) ==
    /\ EnterPlan(c, "automatic_diode_alignment", << >>, "none")
    /\ BuildPlan(c)
    /\ UNCHANGED <<conn, mock_mode, data_mock, serverVars, busy_start, heapVars>>

automatic_diode_alignment(c) ==
    /\ EnterPlan(c, "automatic_diode_alignment", << >>, "none")
    /\ IF mock_mode[c]
       THEN MockPlanExecution(c, "automatic_diode_alignment")
       ELSE BuildPlan(c)
    /\ UNCHANGED <<conn, mock_mode, data_mock, serverVars, busy_start, heapVars>>

\* ------------------------------------------------------------------------
\* _submit_plan
\* ------------------------------------------------------------------------
Log(c, kind, ok) == reqs' = [reqs EXCEPT ![c] = Append(@, <<kind, ok>>)]

\* requests.post(.../api/queue/item/add); raise_for_status();
\* item_uid = response.json()["item"]["item_uid"].  The server's copy of the
\* item keeps the plan's name; its kwargs play no part in what follows.
PostAddItem(c, ok) ==
    /\ pc[c] = "add"
    /\ Log(c, "add", ok)
    /\ IF ok
       THEN /\ next_item' = next_item + 1
            /\ queue' = Append(queue, [item_uid |-> next_item + 1,
                                       name |-> ItemName[op[c]]])
            /\ item_uid' = [item_uid EXCEPT ![c] = next_item + 1]
            /\ pc' = [pc EXCEPT ![c] = "start"]
            /\ UNCHANGED <<outcome, result>>
       ELSE /\ Raise(c, "HTTPError")
            /\ UNCHANGED <<next_item, queue, item_uid>>
    /\ args' = [args EXCEPT ![c] = NoArgs]
    /\ UNCHANGED <<mock_mode, data_mock, reads, op, calls, elapsed,
                   history, uuid_count, running, hist>>
    /\ UNCHANGED <<conn, busy_start, capVars, heapVars>>

\* A faulty variant of PostQueueStart: the status of the response is not checked
PostQueueStartUnchecked(c, ok) ==
    /\ pc[c] = "start"
    /\ Log(c, "start", ok)
    /\ running' = (ok /\ queue # << >>)
    /\ pc' = [pc EXCEPT ![c] = "poll"]
    /\ elapsed' = [elapsed EXCEPT ![c] = 0]
    /\ UNCHANGED <<outcome, result>>
    /\ UNCHANGED <<mock_mode, data_mock, reads, op, args, calls, item_uid,
                   history, uuid_count, queue, hist, next_item>>
    /\ UNCHANGED <<conn, capVars, heapVars>>

\* A faulty variant of PostQueueStart: a failed start takes the item back out
\* of the queue
PostQueueStartRollsBack(c, ok) ==
    /\ pc[c] = "start"
    /\ Log(c, "start", ok)
    /\ IF ok
       THEN /\ running' = (queue # << >>)
            /\ pc' = [pc EXCEPT ![c] = "poll"]
            /\ elapsed' = [elapsed EXCEPT ![c] = 0]
            /\ UNCHANGED <<outcome, result, queue>>
       ELSE /\ Raise(c, "HTTPError")
            /\ queue' = SelectSeq(queue,
                                  LAMBDA it : it.item_uid # item_uid[c])
            /\ UNCHANGED <<running, elapsed>>
    /\ UNCHANGED <<mock_mode, data_mock, reads, op, args, calls, item_uid,
                   history, uuid_count, hist, next_item>>
    /\ UNCHANGED <<conn, capVars, heapVars>>

\* A faulty variant of PostQueueStart: the client takes the answer of a queue
\* that was already running for a failure
PostQueueStartBusyFails(c, ok) ==
    /\ pc[c] = "start"
    /\ Log(c, "start", ok)
    /\ IF ok /\ ~running
       THEN /\ running' = (queue # << >>)
            /\ pc' = [pc EXCEPT ![c] = "poll"]
            /\ elapsed' = [elapsed EXCEPT ![c] = 0]
            /\ UNCHANGED <<outcome, result>>
       ELSE /\ Raise(c, "HTTPError")
            /\ UNCHANGED <<running, elapsed>>
    /\ UNCHANGED <<mock_mode, data_mock, reads, op, args, calls, item_uid,
                   history, uuid_count, queue, hist, next_item>>
    /\ UNCHANGED <<conn, capVars, heapVars>>

\* requests.post(.../api/queue/start).raise_for_status(); return item_uid;
\* then _wait_for_completion takes start_time
PostQueueStart(c, ok) ==
    /\ pc[c] = "start"
    /\ Log(c, "start", ok)
    /\ IF ok
       THEN /\ running' = (queue # << >>)
            /\ pc' = [pc EXCEPT ![c] = "poll"]
            /\ elapsed' = [elapsed EXCEPT ![c] = 0]
            /\ UNCHANGED <<outcome, result>>
       ELSE /\ Raise(c, "HTTPError")
            /\ UNCHANGED <<running, elapsed>>
    /\ UNCHANGED <<mock_mode, data_mock, reads, op, args, calls, item_uid,
                   history, uuid_count, queue, hist, next_item>>
    /\ UNCHANGED <<conn, capVars, heapVars>>

\* ------------------------------------------------------------------------
\* _wait_for_completion: one iteration of the while loop up to the sleep
\* ------------------------------------------------------------------------
\* A faulty variant of Poll: a failed history request is tried again after
\* the sleep
PollRetriesOnError(c, ok) ==
    /\ pc[c] = "poll"
    /\ IF TimedOut(elapsed[c])
       THEN /\ Raise(c, "TimeoutError")
            /\ UNCHANGED <<reqs, history>>
       ELSE /\ Log(c, "history", ok)
            /\ IF ~ok
               THEN /\ pc' = [pc EXCEPT ![c] = "sleep"]
                    /\ UNCHANGED <<outcome, result, history>>
               ELSE /\ history' = [history EXCEPT ![c] = hist]
                    /\ LET found == ScanHistory(hist, item_uid[c]) IN
                       CASE found.kind = "return" ->
                              ReturnPlanResult(c, found.run_uid,
                                               ResultName[op[c]])
                         [] found.kind = "raise" ->
                              Raise(c, "RuntimeError")
                         [] OTHER ->
                              /\ pc' = [pc EXCEPT ![c] = "sleep"]
                              /\ UNCHANGED <<outcome, result>>
    /\ UNCHANGED <<mock_mode, data_mock, reads, op, args, calls, item_uid,
                   elapsed, uuid_count, serverVars>>
    /\ UNCHANGED <<conn, busy_start, capVars, heapVars>>

\* A faulty variant of Poll: a plan that failed remotely is submitted again
PollResubmits(c, ok) ==
    /\ pc[c] = "poll"
    /\ IF TimedOut(elapsed[c])
       THEN /\ Raise(c, "TimeoutError")
            /\ UNCHANGED <<reqs, history>>
       ELSE /\ Log(c, "history", ok)
            /\ IF ~ok
               THEN Raise(c, "HTTPError") /\ UNCHANGED history
               ELSE /\ history' = [history EXCEPT ![c] = hist]
                    /\ LET found == ScanHistory(hist, item_uid[c]) IN
                       CASE found.kind = "return" ->
                              ReturnPlanResult(c, found.run_uid,
                                               ResultName[op[c]])
                         [] found.kind = "raise" ->
                              /\ pc' = [pc EXCEPT ![c] = "add"]
                              /\ UNCHANGED <<outcome, result>>
                         [] OTHER ->
                              /\ pc' = [pc EXCEPT ![c] = "sleep"]
                              /\ UNCHANGED <<outcome, result>>
    /\ UNCHANGED <<mock_mode, data_mock, reads, op, args, calls, item_uid,
                   elapsed, uuid_count, serverVars>>
    /\ UNCHANGED <<conn, busy_start, capVars, heapVars>>

Poll(c, ok) ==
    /\ pc[c] = "poll"
    /\ IF TimedOut(elapsed[c])
       THEN /\ Raise(c, "TimeoutError")
            /\ UNCHANGED <<reqs, history>>
       ELSE /\ Log(c, "history", ok)
            /\ IF ~ok
               THEN Raise(c, "HTTPError") /\ UNCHANGED history
               ELSE /\ history' = [history EXCEPT ![c] = hist]
                    /\ LET found == ScanHistory(hist, item_uid[c]) IN
                       CASE found.kind = "return" ->
                              ReturnPlanResult(c, found.run_uid,
                                               ResultName[op[c]])
                         [] found.kind = "raise" ->
                              Raise(c, "RuntimeError")
                         [] OTHER ->
                              /\ pc' = [pc EXCEPT ![c] = "sleep"]
                              /\ UNCHANGED <<outcome, result>>
    /\ UNCHANGED <<mock_mode, data_mock, reads, op, args, calls, item_uid,
                   elapsed, uuid_count, serverVars>>
    /\ UNCHANGED <<conn, busy_start, capVars, heapVars>>

\* time.sleep(1)
Sleep(c) ==
    /\ pc[c] = "sleep"
    /\ elapsed[c] <= Timeout
    /\ elapsed' = [elapsed EXCEPT ![c] = @ + 1]
    /\ pc' = [pc EXCEPT ![c] = "poll"]
    /\ UNCHANGED <<mock_mode, data_mock, reads, op, args, calls,
                   item_uid, history, reqs, outcome, result, uuid_count,
                   serverVars>>
    /\ UNCHANGED <<conn, busy_start, capVars, heapVars>>

\* A faulty variant of Leave: the client remembers the item it submitted
LeaveKeepsItem(c) ==
    /\ pc[c] = "done"
    /\ pc' = [pc EXCEPT ![c] = "idle"]
    /\ op' = [op EXCEPT ![c] = "none"]
    /\ args' = [args EXCEPT ![c] = NoArgs]
    /\ elapsed' = [elapsed EXCEPT ![c] = 0]
    /\ history' = [history EXCEPT ![c] = << >>]
    /\ reqs' = [reqs EXCEPT ![c] = << >>]
    /\ reads' = [reads EXCEPT ![c] = {}]
    /\ outcome' = [outcome EXCEPT ![c] = "none"]
    /\ result' = [result EXCEPT ![c] = NoResult]
    /\ busy_start' = [busy_start EXCEPT ![c] = FALSE]
    /\ UNCHANGED <<conn, mock_mode, data_mock, calls, uuid_count, serverVars,
                   heapVars, item_uid>>

\* The method has returned or raised: its frame (item_uid, start_time,
\* history, the arguments) is gone and the caller is free to call again.
\* Neither client keeps anything else from the call.
Leave(c) ==
    /\ pc[c] = "done"
    /\ pc' = [pc EXCEPT ![c] = "idle"]
    /\ op' = [op EXCEPT ![c] = "none"]
    /\ args' = [args EXCEPT ![c] = NoArgs]
    /\ item_uid' = [item_uid EXCEPT ![c] = 0]
    /\ elapsed' = [elapsed EXCEPT ![c] = 0]
    /\ history' = [history EXCEPT ![c] = << >>]
    /\ reqs' = [reqs EXCEPT ![c] = << >>]
    /\ reads' = [reads EXCEPT ![c] = {}]
    /\ outcome' = [outcome EXCEPT ![c] = "none"]
    /\ result' = [result EXCEPT ![c] = NoResult]
    /\ busy_start' = [busy_start EXCEPT ![c] = FALSE]
    /\ UNCHANGED <<conn, mock_mode, data_mock, calls, uuid_count, serverVars,
                   heapVars>>

\* ------------------------------------------------------------------------
\* The queue server (external): a running queue executes its first item
\* and records it in the history
\* ------------------------------------------------------------------------
ServerExecute(status, run_uids) ==
    /\ running
    /\ queue # << >>
    /\ hist' = Append(hist, [item_uid |-> Head(queue).item_uid,
                             exit_status |-> status,
                             run_uids |-> run_uids])
    /\ queue' = Tail(queue)
    /\ running' = (Tail(queue) # << >>)
    /\ UNCHANGED <<mock_mode, data_mock, reads, clientVars, next_item>>
    /\ UNCHANGED <<conn, busy_start, capVars, heapVars>>

\* ------------------------------------------------------------------------
\* BL531DataAPI.  An array key is the sequence of its characters, so that
\* lower-casing and substring tests are computed, not assumed.
\* ------------------------------------------------------------------------
UpperChars == 
    <<"A", "B", "C", "D", "E", "F", "G", "H", "I", "J", "K", "L", "M">> \o
    <<"N", "O", "P", "Q", "R", "S", "T", "U", "V", "W", "X", "Y", "Z">>
LowerChars == 
    <<"a", "b", "c", "d", "e", "f", "g", "h", "i", "j", "k", "l", "m">> \o
    <<"n", "o", "p", "q", "r", "s", "t", "u", "v", "w", "x", "y", "z">>

\* str.lower() on one character and on a key
LowerChar(ch) ==
    IF \E i \in 1..26 : UpperChars[i] = ch
    THEN LowerChars[CHOOSE i \in 1..26 : UpperChars[i] = ch]
    ELSE ch
Lower(key) == [i \in 1..Len(key) |-> LowerChar(key[i])]

\* Python's "pat in s" on strings
Contains(pat, s) ==
    \E i \in 1..(Len(s) - Len(pat) + 1) : SubSeq(s, i, i + Len(pat) - 1) = pat

K_det_image == <<"d", "e", "t", "_", "i", "m", "a", "g", "e">>
K_det2_Image == <<"d", "e", "t", "2", "_", "I", "m", "a", "g", "e">>
K_diode == <<"d", "i", "o", "d", "e">>
K_gi_angle == <<"g", "i", "_", "a", "n", "g", "l", "e">>
K_hexapod_readback == 
    <<"h", "e", "x", "a", "p", "o", "d", "_", "m", "o", "t", "o", "r", "_",
      "T", "z", "_", "m", "m", "_", "r", "e", "a", "d", "b", "a", "c", "k">>
K_sample_temp == <<"s", "a", "m", "p", "l", "e", "_", "t", "e", "m", "p">>
K_Scaler_mono == <<"S", "c", "a", "l", "e", "r", "_", "m", "o", "n", "o">>

\* array keys a primary stream may hold
KeyUniverse == {K_det_image, K_det2_Image, K_diode, K_gi_angle,
                K_hexapod_readback, K_sample_temp, K_Scaler_mono}

P_image == <<"i", "m", "a", "g", "e">>
DetectorPatterns == {<<"d", "i", "o", "d", "e">>, <<"d", "e", "t">>, <<"c", "o", "u", "n", "t", "e", "r">>, <<"s", "c", "a", "l", "e", "r">>}
MotorPatterns == {<<"m", "o", "t", "o", "r">>, <<"h", "e", "x", "a", "p", "o", "d">>, <<"a", "n", "g", "l", "e">>, <<"m", "o", "n", "o">>, <<"_", "r", "e", "a", "d", "b", "a", "c", "k">>}

\* the dict fields of RunData, in the order of their declaration
BucketNames == {"detectors", "motors", "images", "other"}
BucketIndex == [detectors |-> 1, motors |-> 2, images |-> 3, other |-> 4]

\* the availability marker and the contents of an array that was read
Marker == "Available (not loaded - use get_image() to load)"
ArrayData == "array"

\* A faulty variant of CategorizeData: the detector patterns are tried first
CategorizeDataDetectorFirst(key) ==
    LET key_lower == Lower(key) IN
    IF \E detector \in DetectorPatterns : Contains(detector, key_lower)
    THEN "detectors"
    ELSE IF Contains(P_image, key_lower) THEN "images"
         ELSE IF \E motor \in MotorPatterns : Contains(motor, key_lower)
              THEN "motors"
              ELSE "other"

\* _categorize_data: the bucket the key's data is stored in
CategorizeData(key) ==
    LET key_lower == Lower(key) IN
    IF Contains(P_image, key_lower) THEN "images"
    ELSE IF \E detector \in DetectorPatterns : Contains(detector, key_lower)
         THEN "detectors"
         ELSE IF \E motor \in MotorPatterns : Contains(motor, key_lower)
              THEN "motors"
              ELSE "other"

\* _categorize_data tabulated over the keys of the model
CategoryOf == [key \in KeyUniverse |-> CategorizeData(key)]

\* The body of the for loop of get_run_data for one key; failing is the set
\* of keys whose read() raises (the except clause logs and goes on).
HandleKey(key, failing) ==
    IF key = K_det_image
    THEN [bucket |-> "images", value |-> Marker, read |-> FALSE]
    ELSE IF key \in failing
         THEN [bucket |-> "none", value |-> ArrayData, read |-> TRUE]
         ELSE [bucket |-> CategoryOf[key], value |-> ArrayData,
               read |-> TRUE]

\* A faulty variant of Bucket: the tests of the categorization are not
\* chained, so a key is stored in every bucket whose patterns it matches
BucketEveryMatch(b, keys, failing) ==
    LET Has(pats, x) == \E pat \in pats : Contains(pat, Lower(x))
        Matches(x) ==
            CASE b = "images" -> Has({P_image}, x)
              [] b = "detectors" -> Has(DetectorPatterns, x)
              [] b = "motors" -> Has(MotorPatterns, x)
              [] OTHER -> HandleKey(x, failing).bucket = "other"
    IN [k \in {x \in keys :
                 /\ HandleKey(x, failing).bucket # "none"
                 /\ IF x = K_det_image THEN b = "images" ELSE Matches(x)}
          |-> HandleKey(k, failing).value]

\* A faulty variant of Bucket: a read that fails ends the retrieval, and
\* nothing is kept
BucketLostOnFailure(b, keys, failing) ==
    IF \E x \in keys : HandleKey(x, failing).bucket = "none"
    THEN << >>
    ELSE [k \in {x \in keys : HandleKey(x, failing).bucket = b}
            |-> HandleKey(k, failing).value]

\* one bucket of the RunData after the loop; the keys of a stream are
\* distinct, so the order of the loop does not matter
Bucket(b, keys, failing) ==
    [k \in {x \in keys : HandleKey(x, failing).bucket = b}
       |-> HandleKey(k, failing).value]

Return(c, kind, value) ==
    /\ pc' = [pc EXCEPT ![c] = "done"]
    /\ outcome' = [outcome EXCEPT ![c] = kind]
    /\ result' = [result EXCEPT ![c] = value]

\* the key sets a primary stream may have
StreamKeys == {ks \in SUBSET KeyUniverse : Cardinality(ks) <= MaxKeys}

dataFrame == <<conn, mock_mode, data_mock, uuid_count, serverVars, busy_start>>

\* A faulty variant of MockRunData: gi_angle is filed with the detectors
MockRunDataMisplaced ==
    [kind |-> "RunData",
     detectors |-> (K_diode :> ArrayData) @@ (K_gi_angle :> ArrayData),
     motors |-> (K_hexapod_readback :> ArrayData),
     images |-> (K_det_image :> Marker),
     other |-> << >>]

\* _mock_run_data
MockRunData ==
    [kind |-> "RunData",
     detectors |-> (K_diode :> ArrayData),
     motors |-> (K_gi_angle :> ArrayData) @@ (K_hexapod_readback :> ArrayData),
     images |-> (K_det_image :> Marker),
     other |-> << >>]

\* get_run_data(run_uid): found tells whether catalog[run_uid]['primary']
\* exists, keys are the arrays of the primary stream, failing those whose
\* read() raises
get_run_data(c, found, keys, failing) ==
    /\ Enter(c, "get_run_data", << >>, "none")
    /\ IF data_mock[c]
       THEN /\ Return(c, "RunData", MockRunData)
            /\ reqs' = [reqs EXCEPT ![c] = << >>]
            /\ reads' = [reads EXCEPT ![c] = {}]
       ELSE /\ reqs' = [reqs EXCEPT ![c] = << <<"catalog", found>> >>]
            /\ IF ~found
               THEN /\ Raise(c, "KeyError")
                    /\ reads' = [reads EXCEPT ![c] = {}]
               ELSE /\ Return(c, "RunData",
                         [kind |-> "RunData",
                          detectors |-> Bucket("detectors", keys, failing),
                          motors |-> Bucket("motors", keys, failing),
                          images |-> Bucket("images", keys, failing),
                          other |-> Bucket("other", keys, failing)])
                    /\ reads' = [reads EXCEPT ![c] =
                                   {k \in keys : HandleKey(k, failing).read}]
    /\ UNCHANGED dataFrame

\* A faulty variant of NewDict: one dict per field, shared by all instances
NewDictShared(h, b) == BucketIndex[b]

\* field(default_factory=dict), and the dict displays of _mock_run_data:
\* the place in the heap h of the new dict made for field b of a new RunData
NewDict(h, b) == Len(h) + BucketIndex[b]

\* The objects behind the RunData that get_run_data returns to process c:
\* the dicts of its four fields are made, the entries are written into them,
\* and the caller keeps the instance.  snap records the contents at the
\* return.
Construct(c) ==
    IF outcome'[c] # "RunData"
    THEN UNCHANGED heapVars
    ELSE LET ids == [b \in BucketNames |-> NewDict(heap, b)]
             top == ids["other"]
             size == IF top > Len(heap) THEN top ELSE Len(heap)
             old(i) == IF i <= Len(heap) THEN heap[i] ELSE << >>
             written(i) ==
                 LET b == CHOOSE x \in BucketNames : ids[x] = i
                 IN result'[c][b] @@ old(i)
         IN /\ heap' = [i \in 1..size |->
                          IF \E b \in BucketNames : ids[b] = i
                          THEN written(i)
                          ELSE old(i)]
            /\ held' = [held EXCEPT ![c] =
                          Append(@, [ids |-> ids,
                                     snap |-> [b \in BucketNames |->
                                                 result'[c][b]]])]

\* get_image(run_uid, image_key): found tells whether the run and the key
\* exist and the read succeeds
get_image(c, image_key, found) ==
    /\ Enter(c, "get_image", << >>, "none")
    /\ IF data_mock[c]
       THEN /\ Return(c, "image", [kind |-> "image", value |-> "mock_image"])
            /\ reqs' = [reqs EXCEPT ![c] = << >>]
            /\ reads' = [reads EXCEPT ![c] = {}]
       ELSE /\ reqs' = [reqs EXCEPT ![c] = << <<"catalog", found>> >>]
            /\ IF ~found
               THEN /\ Raise(c, "KeyError")
                    /\ reads' = [reads EXCEPT ![c] = {}]
               ELSE /\ Return(c, "image",
                              [kind |-> "image", value |-> ArrayData])
                    /\ reads' = [reads EXCEPT ![c] = {image_key}]
    /\ UNCHANGED <<dataFrame, capVars, heapVars>>

\* Python's list(range(n))[:limit] for a list of n elements: the indices kept
SliceTo(n, limit) ==
    IF limit >= 0
    THEN 1..(IF limit < n THEN limit ELSE n)
    ELSE 1..(n + limit)

\* list_runs(limit); n is the number of runs in the catalog, whose keys are
\* <<"run", 1>> .. <<"run", n>> in catalog order
list_runs(c, limit, n) ==
    /\ Enter(c, "list_runs", << >>, "none")
    /\ IF data_mock[c]
       THEN /\ Return(c, "runs",
                      [kind |-> "runs",
                       runs |-> [i \in 1..limit |-> <<"mock-run", i - 1>>]])
            /\ reqs' = [reqs EXCEPT ![c] = << >>]
       ELSE /\ Return(c, "runs",
                      [kind |-> "runs",
                       runs |-> [i \in SliceTo(n, limit) |-> <<"run", i>>]])
            /\ reqs' = [reqs EXCEPT ![c] = << <<"catalog", TRUE>> >>]
    /\ reads' = [reads EXCEPT ![c] = {}]
    /\ UNCHANGED <<dataFrame, capVars, heapVars>>

\* ------------------------------------------------------------------------
\* The capabilities (src/src/bl531/capabilities): execute calls the clients
\* inside a try block, and the framework hands the exception that leaves
\* execute to the capability's classify_error.
\* ------------------------------------------------------------------------
Capabilities == {"bl531_count", "bl531_scan", "bl531_move",
                 "bl531_gisaxs_alignment", "bl531_diode_alignment"}

\* AVAILABLE_MOTORS of the scan and the move capability (the keys)
AVAILABLE_MOTORS ==
    {"gi_angle", "hexapod_motor_Ty", "hexapod_motor_Tz", "hexapod_motor_Ry",
     "hexapod_motor_Rz", "mono"}

\* MOTOR_NAME inputs a step may carry; "none" is a missing input
MotorInputs == AVAILABLE_MOTORS \cup {"mono_energy", "none"}

\* the direct base class of each exception class that occurs: Python's
\* built-in classes, those of requests, and those the capabilities define
Bases ==
    [TimeoutError |-> "OSError",
     ConnectionError |-> "OSError",
     HTTPError |-> "RequestException",
     RequestException |-> "OSError",
     OSError |-> "Exception",
     ValueError |-> "Exception",
     RuntimeError |-> "Exception",
     KeyError |-> "LookupError",
     LookupError |-> "Exception",
     InvalidDetectorError |-> "CountCapabilityError",
     PlanExecutionError |-> "CountCapabilityError",
     CountCapabilityError |-> "Exception",
     ScanCapabilityError |-> "Exception",
     MoveCapabilityError |-> "Exception",
     AlignmentExecutionError |-> "AlignmentCapabilityError",
     AlignmentCapabilityError |-> "Exception",
     DiodeAlignmentExecutionError |-> "DiodeAlignmentCapabilityError",
     DiodeAlignmentCapabilityError |-> "Exception"]

\* isinstance(exc, class) for an exception of class exc
RECURSIVE IsInstance(_, _)
IsInstance(exc, class) ==
    \/ exc = class
    \/ exc \in DOMAIN Bases /\ IsInstance(Bases[exc], class)

\* The except clause of execute: the class of the exception that leaves
\* execute when e was raised inside the try block.  The count capability
\* re-raises e, the others raise an exception of their own class.
ExecuteRaises(capability, e) ==
    CASE capability = "bl531_count" -> e
      [] capability = "bl531_scan" -> "ScanCapabilityError"
      [] capability = "bl531_move" -> "MoveCapabilityError"
      [] capability = "bl531_gisaxs_alignment" -> "AlignmentExecutionError"
      [] capability = "bl531_diode_alignment" ->
             "DiodeAlignmentExecutionError"

Classification(sev, type) == [severity |-> sev, type |-> type]
NoClassification == Classification("none", "none")

\* A faulty variant of classify_error: a ValueError is retried as well
classify_error_RetriesValueError(capability, exc) ==
    IF \/ IsInstance(exc, "ConnectionError")
       \/ IsInstance(exc, "TimeoutError")
       \/ IsInstance(exc, "ValueError")
    THEN Classification("RETRIABLE", "connection_error")
    ELSE Classification("CRITICAL", "execution_error")

\* classify_error of each capability on an exception of class exc
classify_error(capability, exc) ==
    IF IsInstance(exc, "ConnectionError") \/ IsInstance(exc, "TimeoutError")
    THEN Classification("RETRIABLE", "connection_error")
    ELSE CASE capability = "bl531_count" ->
                IF IsInstance(exc, "ValueError")
                THEN Classification("CRITICAL", "invalid_parameter")
                ELSE IF IsInstance(exc, "InvalidDetectorError")
                     THEN Classification("CRITICAL", "invalid_detector")
                     ELSE Classification("CRITICAL", "execution_error")
           [] capability \in {"bl531_scan", "bl531_move"} ->
                IF IsInstance(exc, "ValueError")
                THEN Classification("CRITICAL", "invalid_parameter")
                ELSE Classification("CRITICAL", "execution_error")
           [] capability = "bl531_gisaxs_alignment" ->
                IF IsInstance(exc, "AlignmentExecutionError")
                THEN Classification("CRITICAL", "alignment_failed")
                ELSE Classification("CRITICAL", "unknown_error")
           [] capability = "bl531_diode_alignment" ->
                IF IsInstance(exc, "DiodeAlignmentExecutionError")
                THEN Classification("CRITICAL", "alignment_failed")
                ELSE Classification("CRITICAL", "unknown_error")

\* execute has been entered and is inside a plan method of bl531
Calls(c, capability) ==
    /\ stage[c] = "none"
    /\ cap' = [cap EXCEPT ![c] = capability]
    /\ stage' = [stage EXCEPT ![c] = "plan"]
    /\ UNCHANGED <<propagated, classified>>

\* execute raises before it has called a client: e is raised inside the
\* try block and the except clause raises in its turn
RaisesEarly(c, capability, e) ==
    /\ stage[c] = "none"
    /\ pc[c] = "idle"
    /\ cap' = [cap EXCEPT ![c] = capability]
    /\ stage' = [stage EXCEPT ![c] = "raised"]
    /\ propagated' = [propagated EXCEPT ![c] =
                        [cause |-> e, class |-> ExecuteRaises(capability, e)]]
    /\ UNCHANGED classified
    /\ UNCHANGED <<conn, mock_mode, data_mock, reads, clientVars, serverVars,
                   busy_start, heapVars>>

\* CountCapability.execute up to bl531.count(detectors=detectors, num=num)
execute_count(c, detectors) ==
    /\ Calls(c, "bl531_count")
    /\ count(c, detectors)

\* ScanCapability.execute up to bl531.scan(...)
execute_scan(c, detectors, motor) ==
    IF motor = "none" \/ motor \notin AVAILABLE_MOTORS
    THEN RaisesEarly(c, "bl531_scan", "ValueError")
    ELSE Calls(c, "bl531_scan") /\ scan(c, detectors, motor)

\* MoveCapability.execute up to
\* bl531.scan(detectors=["diode"], motor=motor, start=target, stop=target,
\*            num=1)
execute_move(c, motor) ==
    IF motor = "none" \/ motor \notin AVAILABLE_MOTORS
    THEN RaisesEarly(c, "bl531_move", "ValueError")
    ELSE Calls(c, "bl531_move") /\ scan(c, <<"diode">>, motor)

\* GISAXSAlignmentCapability.execute up to
\* bl531.automatic_gisaxs_alignment()
execute_gisaxs_alignment(c) ==
    /\ Calls(c, "bl531_gisaxs_alignment")
    /\ automatic_gisaxs_alignment(c)

\* DiodeAlignmentCapability.execute up to bl531.automatic_diode_alignment()
execute_diode_alignment(c) ==
    /\ Calls(c, "bl531_diode_alignment")
    /\ automatic_diode_alignment(c)

Exceptions == {"ValueError", "HTTPError", "RuntimeError", "TimeoutError",
               "KeyError"}

\* the client method execute called has raised: the except clause
ExecuteExcept(c) ==
    /\ stage[c] \in {"plan", "data"}
    /\ outcome[c] \in Exceptions
    /\ Leave(c)
    /\ propagated' = [propagated EXCEPT ![c] =
                        [cause |-> outcome[c],
                         class |-> ExecuteRaises(cap[c], outcome[c])]]
    /\ stage' = [stage EXCEPT ![c] = "raised"]
    /\ UNCHANGED <<cap, classified>>

\* the scan and the move capability: the plan method has returned its
\* PlanResult, and execute goes on to bl531_data.get_run_data(run_uid)
ExecuteRetrieves(c) ==
    /\ stage[c] = "plan"
    /\ cap[c] \in {"bl531_scan", "bl531_move"}
    /\ outcome[c] = "PlanResult"
    /\ Leave(c)
    /\ stage' = [stage EXCEPT ![c] = "data"]
    /\ UNCHANGED <<cap, propagated, classified>>

\* bl531_data.get_run_data(run_uid) inside execute
RetrieveData(c, found, keys, failing) ==
    /\ stage[c] = "data"
    /\ get_run_data(c, found, keys, failing)
    /\ UNCHANGED <<capVars, heapVars>>

\* execute stores its context and returns
ExecuteReturns(c) ==
    /\ \/ /\ stage[c] = "plan"
          /\ cap[c] \notin {"bl531_scan", "bl531_move"}
          /\ outcome[c] = "PlanResult"
       \/ /\ stage[c] = "data"
          /\ outcome[c] = "RunData"
    /\ Leave(c)
    /\ cap' = [cap EXCEPT ![c] = "none"]
    /\ stage' = [stage EXCEPT ![c] = "none"]
    /\ UNCHANGED <<propagated, classified>>

\* the framework classifies the exception that left execute
ClassifyError(c) ==
    /\ stage[c] = "raised"
    /\ classified' = [classified EXCEPT ![c] =
                        classify_error(cap[c], propagated[c].class)]
    /\ stage' = [stage EXCEPT ![c] = "classified"]
    /\ UNCHANGED <<cap, propagated>>
    /\ UNCHANGED <<conn, mock_mode, data_mock, reads, clientVars, serverVars,
                   busy_start, heapVars>>

\* the framework has dealt with the classified error
Finish(c) ==
    /\ stage[c] = "classified"
    /\ cap' = [cap EXCEPT ![c] = "none"]
    /\ stage' = [stage EXCEPT ![c] = "none"]
    /\ propagated' = [propagated EXCEPT ![c] = NoException]
    /\ classified' = [classified EXCEPT ![c] = NoClassification]
    /\ UNCHANGED <<conn, mock_mode, data_mock, reads, clientVars, serverVars,
                   busy_start, heapVars>>

\* ------------------------------------------------------------------------
\* Specifications
\* ------------------------------------------------------------------------
\* the mock_mode arguments of the constructors: mock or real for the clients
\* of the acting process
Modes(m) == m \in [Procs -> BOOLEAN] /\ ~m["c2"]
AllReal(m) == m = [c \in Procs |-> FALSE]

\* both clients in use: the module-level instances bl531 and bl531_data,
\* which take their mode from the same BL531_MOCK_MODE
Init == Modes(mock_mode) /\ data_mock = mock_mode /\ InitCommon
\* only BL531API in use
InitPlan == Modes(mock_mode) /\ AllReal(data_mock) /\ InitCommon
\* only BL531DataAPI in use
InitData == AllReal(mock_mode) /\ Modes(data_mock) /\ InitCommon

\* the operation is called by the process itself, not by a capability
Direct == UNCHANGED capVars

\* the operation a process called itself has returned or raised
Back(c) == Leave(c) /\ Direct

\* the steps of a process inside BL531API
PlanStep(c) ==
    \/ \E d \in DetectorLists : count(c, d) /\ Direct
    \/ \E d \in DetectorLists, m \in MotorNames : scan(c, d, m) /\ Direct
    \/ automatic_gisaxs_alignment(c) /\ Direct
    \/ automatic_diode_alignment(c) /\ Direct
    \/ \E ok \in BOOLEAN : PostAddItem(c, ok)
    \/ \E ok \in BOOLEAN : PostQueueStart(c, ok) /\ UNCHANGED busy_start
    \/ \E ok \in BOOLEAN : Poll(c, ok)
    \/ Sleep(c)

\* the operations of a process on BL531DataAPI
DataStep(c) ==
    \/ get_run_data(c, FALSE, {}, {}) /\ Direct /\ UNCHANGED heapVars
    \/ \E keys \in StreamKeys : \E failing \in SUBSET keys :
          get_run_data(c, TRUE, keys, failing) /\ Direct /\ UNCHANGED heapVars
    \/ \E k \in KeyUniverse, found \in BOOLEAN : get_image(c, k, found)
    \/ \E limit \in -1..MaxLimit, n \in 0..MaxRuns : list_runs(c, limit, n)

Server == \E s \in ExitStatuses, r \in RunUidLists : ServerExecute(s, r)

\* one process using BL531API, and the queue server
Next == PlanStep("c1") \/ Back("c1") \/ Server
Spec == InitPlan /\ [][Next]_vars

\* one process using BL531DataAPI
NextData == DataStep("c1") \/ Back("c1")
SpecData == InitData /\ [][NextData]_vars

\* one process using both clients, and the queue server
NextAll == PlanStep("c1") \/ DataStep("c1") \/ Back("c1") \/ Server
SpecAll == Init /\ [][NextAll]_vars

\* the steps of a process inside BL531API, with the state of the queue at
\* the start-queue POST observed
ObservedStep(c) ==
    \/ \E d \in DetectorLists : count(c, d) /\ Direct
    \/ \E d \in DetectorLists, m \in MotorNames : scan(c, d, m) /\ Direct
    \/ automatic_gisaxs_alignment(c) /\ Direct
    \/ automatic_diode_alignment(c) /\ Direct
    \/ \E ok \in BOOLEAN : PostAddItem(c, ok)
    \/ \E ok \in BOOLEAN :
          /\ PostQueueStart(c, ok)
          /\ busy_start' = [busy_start EXCEPT ![c] = running]
    \/ \E ok \in BOOLEAN : Poll(c, ok)
    \/ Sleep(c)

NextStart == ObservedStep("c1") \/ Back("c1") \/ Server
SpecStart == InitPlan /\ [][NextStart]_vars

\* the operations of a process on BL531DataAPI, with the objects of the
\* RunData instances followed
HeapStep(c) ==
    \/ get_run_data(c, FALSE, {}, {}) /\ Direct /\ Construct(c)
    \/ \E keys \in StreamKeys : \E failing \in SUBSET keys :
          get_run_data(c, TRUE, keys, failing) /\ Direct /\ Construct(c)
    \/ \E k \in KeyUniverse, found \in BOOLEAN : get_image(c, k, found)
    \/ \E limit \in -1..MaxLimit, n \in 0..MaxRuns : list_runs(c, limit, n)

NextHeap == HeapStep("c1") \/ Back("c1")
SpecHeap == InitData /\ [][NextHeap]_vars

\* the steps of a process that acts through the capabilities
CapStep(c) ==
    \/ \E d \in DetectorLists : execute_count(c, d)
    \/ \E d \in DetectorLists, m \in MotorInputs : execute_scan(c, d, m)
    \/ \E m \in MotorInputs : execute_move(c, m)
    \/ execute_gisaxs_alignment(c)
    \/ execute_diode_alignment(c)
    \/ \E ok \in BOOLEAN : PostAddItem(c, ok)
    \/ \E ok \in BOOLEAN : PostQueueStart(c, ok) /\ UNCHANGED busy_start
    \/ \E ok \in BOOLEAN : Poll(c, ok)
    \/ Sleep(c)
    \/ ExecuteExcept(c)
    \/ ExecuteRetrieves(c)
    \/ RetrieveData(c, FALSE, {}, {})
    \/ \E keys \in StreamKeys : \E failing \in SUBSET keys :
          RetrieveData(c, TRUE, keys, failing)
    \/ ExecuteReturns(c)
    \/ ClassifyError(c)
    \/ Finish(c)

\* one process running capabilities, and the queue server
NextCap == CapStep("c1") \/ Server
SpecCap == Init /\ [][NextCap]_vars

\* the calling process keeps running an operation it has entered
Run(c) ==
    \/ \E ok \in BOOLEAN : PostAddItem(c, ok)
    \/ \E ok \in BOOLEAN : PostQueueStart(c, ok) /\ UNCHANGED busy_start
    \/ \E ok \in BOOLEAN : Poll(c, ok)
    \/ Sleep(c)

\* Spec, with a process that does not stop in the middle of a plan method
FairSpec == InitPlan /\ [][Next]_vars /\ WF_vars(Run("c1"))

\* two processes, each with its own real-mode BL531API, submitting one count
\* plan each to the same queue server; their steps interleave freely
InitTwo == AllReal(mock_mode) /\ AllReal(data_mock) /\ InitCommon
TwoStep(c) ==
    \/ calls[c] = 0 /\ count(c, <<"diode">>) /\ Direct
    \/ \E ok \in BOOLEAN : PostAddItem(c, ok)
    \/ \E ok \in BOOLEAN : PostQueueStart(c, ok) /\ UNCHANGED busy_start
    \/ \E ok \in BOOLEAN : Poll(c, ok)
    \/ Sleep(c)
NextTwo == \E c \in Procs : TwoStep(c) \/ Back(c) \/ Server
SpecTwo == InitTwo /\ [][NextTwo]_vars

\* ------------------------------------------------------------------------
\* Properties
\* ------------------------------------------------------------------------
IsPlanOp(c) == op[c] \in PlanNames
Last(s) == s[Len(s)]

\* the entries of a history response that belong to the item of process c
OwnEntries(c) ==
    {i \in DOMAIN history[c] : history[c][i].item_uid = item_uid[c]}

\* C1: count and scan, mock or real: a detectors list with a name outside
\* {"diode", "det"} ends in ValueError, without a PlanResult and before any
\* HTTP request.
C1_InvalidDetectorRejected ==
    \A c \in Procs :
        (/\ op[c] \in {"count", "scan"}
         /\ \E i \in DOMAIN args[c].detectors :
                args[c].detectors[i] \notin {"diode", "det"})
        => (/\ pc[c] = "done"
            /\ outcome[c] = "ValueError"
            /\ result[c] = NoResult
            /\ reqs[c] = << >>)

C1_Witness ==
    /\ op["c1"] = "scan"
    /\ ~mock_mode["c1"]
    /\ args["c1"].detectors = <<"diode", "non-existing">>
    /\ outcome["c1"] = "ValueError"

\* C2: scan, mock or real: a motor outside the allow-list ends in ValueError,
\* without a PlanResult and before any HTTP request.
C2_InvalidMotorRejected ==
    \A c \in Procs :
        (/\ op[c] = "scan"
         /\ args[c] # NoArgs
         /\ args[c].motor \notin
                {"hexapod_motor_Ry", "hexapod_motor_Rz", "hexapod_motor_Ty",
                 "hexapod_motor_Tz", "gi_angle", "mono_energy"})
        => (/\ pc[c] = "done"
            /\ outcome[c] = "ValueError"
            /\ result[c] = NoResult
            /\ reqs[c] = << >>)

C2_Witness ==
    /\ op["c1"] = "scan"
    /\ args["c1"].detectors = <<"diode">>
    /\ args["c1"].motor = "hexapod_motor_Tx"
    /\ outcome["c1"] = "ValueError"
    /\ reqs["c1"] = << >>

\* C3: when a history response holds the submitted item's entry with
\* exit_status "completed" and a non-empty run_uids, the wait has returned
\* that entry's first run_uid, and that fetch is the last request.
C3_CompletedReturnsFirstRun ==
    \A c \in Procs : \A i \in OwnEntries(c) :
        (history[c][i].exit_status = "completed"
            /\ history[c][i].run_uids # << >>)
        => (/\ pc[c] = "done"
            /\ outcome[c] = "PlanResult"
            /\ result[c].run_uid = history[c][i].run_uids[1]
            /\ Last(reqs[c]) = <<"history", TRUE>>)

C3_Witness ==
    /\ outcome["c1"] = "PlanResult"
    /\ ~mock_mode["c1"]
    /\ result["c1"].run_uid = <<"run", 2>>
    /\ \E i \in OwnEntries("c1") :
          history["c1"][i].run_uids = << <<"run", 2>>, <<"run", 1>> >>

\* C4: when the submitted item's history entry shows "failed", "aborted" or
\* "unknown", the wait has raised RuntimeError on that poll, with no sleep
\* and no fetch after it.
C4_FailureStatusRaises ==
    \A c \in Procs : \A i \in OwnEntries(c) :
        history[c][i].exit_status \in {"failed", "aborted", "unknown"}
        => (/\ pc[c] = "done"
            /\ outcome[c] = "RuntimeError"
            /\ Last(reqs[c]) = <<"history", TRUE>>)

\* a wait of process c has begun (the start-queue POST succeeded) and is over
WaitOver(c) ==
    /\ IsPlanOp(c)
    /\ pc[c] = "done"
    /\ Len(reqs[c]) >= 2
    /\ reqs[c][2] = <<"start", TRUE>>

\* C5: a wait never goes on forever, and a wait whose history responses all
\* arrived and never showed an entry with a terminal status for the item
\* ends in TimeoutError, with more than Timeout seconds elapsed.
C5_WaitEndsInTimeout ==
    /\ \A c \in Procs : (pc[c] \in {"poll", "sleep"}) ~> (pc[c] = "done")
    /\ [](\A c \in Procs :
            (/\ WaitOver(c)
             /\ \A j \in DOMAIN reqs[c] : reqs[c][j][2]
             /\ \A i \in OwnEntries(c) :
                   history[c][i].exit_status \notin
                       {"completed", "failed", "aborted", "unknown"})
            => (/\ outcome[c] = "TimeoutError"
                /\ result[c] = NoResult
                /\ elapsed[c] > Timeout))

C5_Witness ==
    /\ WaitOver("c1")
    /\ outcome["c1"] = "TimeoutError"
    /\ OwnEntries("c1") = {}
    /\ Len(reqs["c1"]) = Timeout + 3

\* the rule of the categorization, first match wins, on the lower-cased key
RefBucket(key) ==
    LET Has(pat) == Contains(pat, Lower(key))
        isImage == Has(<<"i", "m", "a", "g", "e">>)
        isDetector ==
            \/ Has(<<"d", "i", "o", "d", "e">>)
            \/ Has(<<"d", "e", "t">>)
            \/ Has(<<"c", "o", "u", "n", "t", "e", "r">>)
            \/ Has(<<"s", "c", "a", "l", "e", "r">>)
        isMotor ==
            \/ Has(<<"m", "o", "t", "o", "r">>)
            \/ Has(<<"h", "e", "x", "a", "p", "o", "d">>)
            \/ Has(<<"a", "n", "g", "l", "e">>)
            \/ Has(<<"m", "o", "n", "o">>)
            \/ Has(<<"_", "r", "e", "a", "d", "b", "a", "c", "k">>)
    IN CASE isImage -> "images"
         [] ~isImage /\ isDetector -> "detectors"
         [] ~isImage /\ ~isDetector /\ isMotor -> "motors"
         [] OTHER -> "other"

IsRunData(c) == op[c] = "get_run_data" /\ outcome[c] = "RunData"

\* C6: in the RunData of a real-mode get_run_data every key lies in the
\* bucket the rule gives it; "det_image" lies in images, "diode" in
\* detectors, "hexapod_motor_Tz_mm_readback" in motors, "sample_temp" in
\* other, and a key with "image" and "det" in images only.
C6_BucketFollowsRule ==
    \A c \in Procs :
        (IsRunData(c) /\ ~data_mock[c]) =>
            /\ \A b \in BucketNames : \A k \in DOMAIN result[c][b] :
                   b = RefBucket(k)
            /\ \A b \in BucketNames :
                   /\ K_det_image \in DOMAIN result[c][b] => b = "images"
                   /\ K_diode \in DOMAIN result[c][b] => b = "detectors"
                   /\ K_hexapod_readback \in DOMAIN result[c][b] => b = "motors"
                   /\ K_sample_temp \in DOMAIN result[c][b] => b = "other"
                   /\ K_det2_Image \in DOMAIN result[c][b] => b = "images"

C6_Witness ==
    /\ IsRunData("c1")
    /\ ~data_mock["c1"]
    /\ DOMAIN result["c1"].images = {K_det_image, K_det2_Image}

\* C7: in the RunData of get_run_data every entry of the images bucket is
\* the availability marker, and get_run_data has read no array whose key
\* contains "image".
C7_ImagesNeverLoaded ==
    \A c \in Procs :
        IsRunData(c) =>
            /\ \A k \in DOMAIN result[c].images : result[c].images[k] = Marker
            /\ \A k \in reads[c] :
                   ~Contains(<<"i", "m", "a", "g", "e">>, Lower(k))

\* the names of the last plan call of process c are valid
ValidNames(c) ==
    /\ \A i \in DOMAIN args[c].detectors :
           args[c].detectors[i] \in {"diode", "det"}
    /\ op[c] = "scan" => args[c].motor \in BL531_MOTORS

\* C8: in mock mode no operation of either client issues a request or reads
\* the catalog, the plan methods are over at once, and with valid names
\* they return a PlanResult whose run_uid is a generated UUID; a queue
\* server used by mock-mode processes only has received nothing.
C8_MockModeNoIO ==
    \A c \in Procs :
        /\ (mock_mode[c] /\ IsPlanOp(c)) =>
              /\ pc[c] = "done"
              /\ reqs[c] = << >>
              /\ outcome[c] \in {"PlanResult", "ValueError"}
              /\ ValidNames(c) => outcome[c] = "PlanResult"
              /\ outcome[c] = "PlanResult" =>
                    /\ result[c].run_uid[1] = "uuid"
                    /\ result[c].run_uid[2] \in 1..uuid_count
                    /\ result[c].plan_name = op[c]
        /\ (data_mock[c] /\ op[c] \in {"get_run_data", "get_image", "list_runs"})
              => (reqs[c] = << >> /\ reads[c] = {})
        /\ (\A p \in Procs : mock_mode[p] \/ calls[p] = 0) =>
              (next_item = 0 /\ queue = << >> /\ hist = << >>)

C8_Witness ==
    /\ mock_mode["c1"]
    /\ data_mock["c1"]
    /\ calls["c1"] = 2
    /\ op["c1"] = "automatic_gisaxs_alignment"
    /\ outcome["c1"] = "PlanResult"
    /\ result["c1"].run_uid = <<"uuid", 2>>

\* C9: the requests of a real-mode plan call are one add-item POST, then one
\* start-queue POST, then history GETs; the start follows a successful add
\* that gave an item_uid, and a history GET follows a successful start.
C9_RequestOrder ==
    \A c \in Procs :
        (IsPlanOp(c) /\ ~mock_mode[c]) =>
            \A i \in DOMAIN reqs[c] :
                /\ (i = 1) <=> (reqs[c][i][1] = "add")
                /\ (i = 2) <=> (reqs[c][i][1] = "start")
                /\ (i >= 3) <=> (reqs[c][i][1] = "history")
                /\ i >= 2 => (reqs[c][1][2] /\ item_uid[c] # 0)
                /\ i >= 3 => reqs[c][2][2]

C9_Witness ==
    /\ IsPlanOp("c1")
    /\ Len(reqs["c1"]) = 4
    /\ reqs["c1"][3] = <<"history", TRUE>>
    /\ reqs["c1"][4] = <<"history", TRUE>>

\* C10: a real-mode plan call has a PlanResult only if the last history
\* response held the item's entry with exit_status "completed" and a
\* non-empty run_uids whose first element is the PlanResult's run_uid; an
\* operation that raised has no result.
C10_PlanResultOnlyWhenCompleted ==
    \A c \in Procs :
        (IsPlanOp(c) /\ ~mock_mode[c]) =>
            /\ result[c] # NoResult =>
                  /\ outcome[c] = "PlanResult"
                  /\ \E i \in OwnEntries(c) :
                        /\ history[c][i].exit_status = "completed"
                        /\ history[c][i].run_uids # << >>
                        /\ result[c].run_uid = history[c][i].run_uids[1]
            /\ outcome[c] \in {"ValueError", "HTTPError", "RuntimeError",
                               "TimeoutError"} => result[c] = NoResult

C10_Witness ==
    /\ IsPlanOp("c1")
    /\ ~mock_mode["c1"]
    /\ calls["c1"] = 2
    /\ outcome["c1"] = "PlanResult"
    /\ Len(history["c1"]) = 2
    /\ history["c1"][1].exit_status = "completed"
    /\ history["c1"][1].run_uids # << >>
    /\ result["c1"].run_uid # history["c1"][1].run_uids[1]

\* the requests of a kind the running call of process c has issued
Requests(c, kind) == {i \in DOMAIN reqs[c] : reqs[c][i][1] = kind}

\* C11: a plan call issues at most one add-item POST and at most one
\* start-queue POST whatever its outcome, so the queue server has received
\* no more items than calls were made; a call that raised RuntimeError is
\* over, and its last request is the history GET that showed the item's
\* failed or unknown entry.
C11_NoResubmission ==
    /\ \A c \in Procs :
          IsPlanOp(c) =>
             /\ Cardinality(Requests(c, "add")) <= 1
             /\ Cardinality(Requests(c, "start")) <= 1
             /\ outcome[c] = "RuntimeError" =>
                   /\ pc[c] = "done"
                   /\ Last(reqs[c]) = <<"history", TRUE>>
                   /\ \E i \in OwnEntries(c) :
                         history[c][i].exit_status \in {"failed", "unknown"}
    /\ next_item <= calls["c1"] + calls["c2"]
    /\ Len(queue) + Len(hist) = next_item

C11_Witness ==
    /\ outcome["c1"] = "RuntimeError"
    /\ calls["c1"] = 2
    /\ next_item = 2
    /\ Len(reqs["c1"]) = 4
    /\ Cardinality(Requests("c1", "add")) = 1

\* C12: in every capability, when the client raised a TimeoutError or a
\* transport error during execute, the exception that left execute is
\* classified RETRIABLE by the capability's classify_error.
C12_TransportErrorRetriable ==
    \A c \in Procs :
        (/\ stage[c] = "classified"
         /\ propagated[c].cause \in {"TimeoutError", "HTTPError"})
        => classified[c].severity = "RETRIABLE"

\* C13: in every capability, the exception that left execute for a
\* ValueError of the parameter validation or for the RuntimeError of a
\* failed item is classified CRITICAL, never RETRIABLE; the client raised
\* the ValueError before it sent any request.
C13_ValidationErrorCritical ==
    \A c \in Procs :
        /\ (/\ stage[c] = "classified"
            /\ propagated[c].cause \in {"ValueError", "RuntimeError"})
           => (/\ classified[c].severity # "RETRIABLE"
               /\ classified[c].severity = "CRITICAL")
        /\ (cap[c] \in Capabilities /\ outcome[c] = "ValueError")
           => (pc[c] = "done" /\ reqs[c] = << >>)

C13_Witness ==
    /\ stage["c1"] = "classified"
    /\ cap["c1"] = "bl531_count"
    /\ propagated["c1"] = [cause |-> "ValueError", class |-> "ValueError"]
    /\ classified["c1"] = Classification("CRITICAL", "invalid_parameter")

\* the keys a RunData holds, in any bucket
KeysOf(rd) == UNION {DOMAIN rd[b] : b \in BucketNames}

\* C14: a real-mode get_run_data on a stream in which the reads of some
\* arrays raise does not raise: it returns a RunData that holds every key
\* whose read succeeded (and the deferred "det_image"), and none of the
\* keys whose read raised.
C14_FailedReadSkipped ==
    [][\A c \in Procs : \A keys \in StreamKeys : \A failing \in SUBSET keys :
          (~data_mock[c] /\ get_run_data(c, TRUE, keys, failing))
          => (/\ pc'[c] = "done"
              /\ outcome'[c] = "RunData"
              /\ \A k \in keys \ failing : k \in KeysOf(result'[c])
              /\ \A k \in failing \ {K_det_image} :
                     k \notin KeysOf(result'[c])
              /\ KeysOf(result'[c]) \subseteq keys)]_vars

\* a RunData returned although a read raised: sample_temp was read and is
\* in no bucket, diode was read and is kept
C14_Witness ==
    /\ IsRunData("c1")
    /\ ~data_mock["c1"]
    /\ reads["c1"] = {K_sample_temp, K_diode}
    /\ KeysOf(result["c1"]) = {K_diode}
    /\ result["c1"].detectors[K_diode] = ArrayData

\* C15: a start-queue POST that is answered leads to the same state whether
\* the queue was idle or already running: the call keeps its item_uid and
\* goes on to poll with nothing raised, the queue runs if it holds an item,
\* and its items and history are as before.
C15_StartIdempotent ==
    [][\A c \in Procs :
          (/\ pc[c] = "start"
           /\ pc'[c] # "start"
           /\ Last(reqs'[c]) = <<"start", TRUE>>)
          => (/\ pc'[c] = "poll"
              /\ item_uid'[c] = item_uid[c]
              /\ item_uid[c] # 0
              /\ outcome'[c] = "none"
              /\ result'[c] = NoResult
              /\ elapsed'[c] = 0
              /\ running' = (queue # << >>)
              /\ UNCHANGED <<queue, hist, next_item>>)]_vars

\* a call that is polling after a start-queue POST to a running queue
C15_Witness ==
    /\ pc["c1"] = "poll"
    /\ busy_start["c1"]
    /\ reqs["c1"] = << <<"add", TRUE>>, <<"start", TRUE>> >>
    /\ item_uid["c1"] = 2
    /\ outcome["c1"] = "none"

\* the dict objects of the i-th RunData returned to process c
DictsOf(c, i) == {held[c][i].ids[b] : b \in BucketNames}

\* C16: the four bucket mappings of a RunData returned by get_run_data are
\* objects of their own, shared neither among themselves nor with the
\* RunData of another call, and their contents stay what they were at the
\* return through every later operation of the client.
C16_RunDataFreshAndFrozen ==
    \A c \in Procs : \A i \in DOMAIN held[c] :
        /\ Cardinality(DictsOf(c, i)) = 4
        /\ \A d \in Procs : \A j \in DOMAIN held[d] :
              <<c, i>> # <<d, j>> => DictsOf(c, i) \cap DictsOf(d, j) = {}
        /\ \A b \in BucketNames :
              heap[held[c][i].ids[b]] = held[c][i].snap[b]

\* two RunData returned one after the other, with different contents
C16_Witness ==
    /\ Len(held["c1"]) = 2
    /\ pc["c1"] = "done"
    /\ K_diode \in DOMAIN held["c1"][1].snap.detectors
    /\ K_diode \notin DOMAIN held["c1"][2].snap.detectors
    /\ K_Scaler_mono \in DOMAIN held["c1"][2].snap.detectors

\* C17: no step changes base_url, api_key, headers or mock_mode of a client,
\* and between two calls the client holds nothing of the call before: no
\* item_uid, no history, no request log, no outcome or result, so that a
\* call starts from the state the constructor left.
C17_NoClientState ==
    /\ [][conn' = conn /\ mock_mode' = mock_mode]_vars
    /\ [](\A c \in Procs :
            /\ conn[c] = Connection(BaseUrl(mock_mode[c]), ApiKey(mock_mode[c]))
            /\ pc[c] = "idle" =>
                  /\ op[c] = "none"
                  /\ args[c] = NoArgs
                  /\ item_uid[c] = 0
                  /\ elapsed[c] = 0
                  /\ history[c] = << >>
                  /\ reqs[c] = << >>
                  /\ outcome[c] = "none"
                  /\ result[c] = NoResult)

\* a real-mode client between calls, after two plans were submitted
C17_Witness ==
    /\ pc["c1"] = "idle"
    /\ ~mock_mode["c1"]
    /\ calls["c1"] = 2
    /\ next_item = 2
    /\ hist # << >>

\* what C18 says of the list of run identifiers that list_runs(limit)
\* returns from a catalog of n runs
ListRunsContract(runs, limit, n, mock) ==
    LET len == Cardinality(DOMAIN runs) IN
    /\ DOMAIN runs = 1..len
    /\ len <= limit
    /\ ~mock => /\ len = (IF limit < n THEN limit ELSE n)
                /\ \A i \in 1..len : runs[i] = <<"run", i>>
    /\ mock => /\ len = limit
               /\ \A i, j \in 1..len : i # j => runs[i] # runs[j]

\* C18: list_runs(limit) returns at most limit identifiers, in real mode the
\* first min(limit, n) keys of the catalog in catalog order, in mock mode
\* exactly limit distinct identifiers, for every integer limit, 0 and
\* negative values included.
C18_ListRunsAtMostLimit ==
    [][\A c \in Procs : \A limit \in -1..MaxLimit : \A n \in 0..MaxRuns :
          list_runs(c, limit, n)
          => ListRunsContract(result'[c].runs, limit, n, data_mock[c])]_vars

\* C19: a plan call with detectors from {"diode", "det"} and, for a scan, an
\* allow-listed motor does not fail its validation; in mock mode, and in
\* real mode once the history shows the item completed with a run, it has
\* returned a PlanResult, and every PlanResult carries the name of the
\* operation invoked and a run_uid that is not empty.
C19_ValidCallSucceeds ==
    \A c \in Procs :
        IsPlanOp(c) =>
            /\ ValidNames(c) => outcome[c] # "ValueError"
            /\ (mock_mode[c] /\ ValidNames(c)) => outcome[c] = "PlanResult"
            /\ (\E i \in OwnEntries(c) :
                    /\ history[c][i].exit_status = "completed"
                    /\ history[c][i].run_uids # << >>)
               => outcome[c] = "PlanResult"
            /\ outcome[c] = "PlanResult" =>
                  /\ result[c].plan_name = op[c]
                  /\ result[c].plan_name \in
                        {"count", "scan", "automatic_gisaxs_alignment",
                         "automatic_diode_alignment"}
                  /\ result[c].run_uid # NoUid
                  /\ result[c].run_uid[1] \in {"run", "uuid"}

C19_Witness ==
    /\ op["c1"] = "scan"
    /\ ~mock_mode["c1"]
    /\ outcome["c1"] = "PlanResult"
    /\ result["c1"] = [kind |-> "PlanResult", run_uid |-> <<"run", 1>>,
                       plan_name |-> "scan"]

\* C20: a move with a valid motor submits at most one plan, and the plan it
\* submits is a count plan that reads the diode: the plan_dict it posts is
\* named "count" with detectors ["diode"], and so is the item the queue
\* server holds for it.
C20_MoveSubmitsCount ==
    \A c \in Procs :
        cap[c] = "bl531_move" =>
            /\ Cardinality(Requests(c, "add")) <= 1
            /\ pc[c] = "add" =>
                  /\ ItemName[op[c]] = "count"
                  /\ args[c].detectors = <<"diode">>
            /\ \A i \in DOMAIN queue :
                  queue[i].item_uid = item_uid[c] => queue[i].name = "count"

\* the history fetches of the current call of process c
Fetches(c) == Cardinality(Requests(c, "history"))

\* C21: with time in whole seconds, a wait fetches the history at least once
\* and at most Timeout + 1 times, sleeps exactly one second between two
\* consecutive fetches (the fetch count is the seconds elapsed, plus one
\* after the fetch of the current iteration), and raises TimeoutError at the
\* first iteration where elapsed exceeds Timeout, after a fetch at
\* elapsed = Timeout.
C21_FetchesBoundedByTimeout ==
    \A c \in Procs :
        /\ Fetches(c) <= Timeout + 1
        /\ pc[c] = "poll" => Fetches(c) = elapsed[c]
        /\ pc[c] = "sleep" => /\ Fetches(c) = elapsed[c] + 1
                              /\ elapsed[c] <= Timeout
        /\ WaitOver(c) =>
              /\ Fetches(c) >= 1
              /\ outcome[c] = "TimeoutError" =>
                    /\ elapsed[c] = Timeout + 1
                    /\ Fetches(c) = Timeout + 1
              /\ outcome[c] # "TimeoutError" =>
                    /\ Fetches(c) = elapsed[c] + 1
                    /\ elapsed[c] <= Timeout

C21_Witness ==
    /\ WaitOver("c1")
    /\ outcome["c1"] = "TimeoutError"
    /\ Fetches("c1") = Timeout + 1
    /\ elapsed["c1"] = Timeout + 1

\* the history response held by process c shows its item completed without
\* any run_uid
CompletedWithoutRuns(c) ==
    \E i \in OwnEntries(c) :
        /\ history[c][i].exit_status = "completed"
        /\ history[c][i].run_uids = << >>

\* C22: an entry of the submitted item with exit_status "completed" and no
\* run_uids is neither a success nor a failure: the call never returns a
\* PlanResult and never raises RuntimeError on it, the wait goes on polling,
\* and it ends in TimeoutError when every history response arrives.
C22_CompletedWithoutRunsTimesOut ==
    /\ [](\A c \in Procs :
            CompletedWithoutRuns(c) =>
                /\ pc[c] \in {"sleep", "poll", "done"}
                /\ outcome[c] \in {"none", "TimeoutError", "HTTPError"}
                /\ pc[c] = "done" =>
                      /\ outcome[c] # "none"
                      /\ outcome[c] = "HTTPError" =>
                            Last(reqs[c]) = <<"history", FALSE>>
                      /\ outcome[c] = "TimeoutError" =>
                            elapsed[c] = Timeout + 1)
    /\ \A c \in Procs :
          (CompletedWithoutRuns(c) /\ pc[c] = "sleep")
             ~> (/\ pc[c] = "done"
                 /\ outcome[c] \in {"TimeoutError", "HTTPError"})

C22_Witness ==
    /\ CompletedWithoutRuns("c1")
    /\ WaitOver("c1")
    /\ outcome["c1"] = "TimeoutError"
    /\ \A i \in Requests("c1", "history") : reqs["c1"][i][2]

\* C23: with two clients submitting to the same queue server, in every
\* interleaving the two items have different item_uids, a client returns a
\* PlanResult only with the first run_uid of a completed entry of its own
\* item, raises RuntimeError only on a failed or unknown entry of its own
\* item, and a wait whose history responses never held an entry of its own
\* item ends only by timeout or by an HTTP error, whatever the entries of
\* the other client's item say.
C23_OtherItemsIgnored ==
    \A c \in Procs :
        /\ \A d \in Procs \ {c} :
              item_uid[c] # 0 => item_uid[c] # item_uid[d]
        /\ outcome[c] = "PlanResult" =>
              \E i \in OwnEntries(c) :
                  /\ history[c][i].exit_status = "completed"
                  /\ history[c][i].run_uids # << >>
                  /\ result[c].run_uid = history[c][i].run_uids[1]
        /\ outcome[c] = "RuntimeError" =>
              \E i \in OwnEntries(c) :
                  history[c][i].exit_status \in {"failed", "unknown"}
        /\ (WaitOver(c) /\ OwnEntries(c) = {}) =>
              outcome[c] \in {"TimeoutError", "HTTPError"}
        /\ (pc[c] = "sleep" /\ OwnEntries(c) = {}) => outcome[c] = "none"

C23_Witness ==
    /\ item_uid["c1"] = 2
    /\ item_uid["c2"] = 1
    /\ Len(history["c1"]) = 2
    /\ history["c1"][1] = [item_uid |-> 1, exit_status |-> "failed",
                           run_uids |-> << <<"run", 1>> >>]
    /\ history["c1"][2] = [item_uid |-> 2, exit_status |-> "completed",
                           run_uids |-> << <<"run", 2>>, <<"run", 1>> >>]
    /\ outcome["c1"] = "PlanResult"
    /\ result["c1"].run_uid = <<"run", 2>>
    /\ outcome["c2"] = "RuntimeError"
    /\ Cardinality(Requests("c1", "history")) = 2

\* the item of process c is waiting in the server's queue / has been
\* executed by the server
Queued(c) == \E i \in DOMAIN queue : queue[i].item_uid = item_uid[c]
Executed(c) == \E i \in DOMAIN hist : hist[i].item_uid = item_uid[c]

\* C24: a call whose add-item POST failed has issued no other request and
\* has ended with the HTTP error, and the server holds no item for it; a
\* call whose start-queue POST failed has issued the add and the start only,
\* has ended with the HTTP error, and its item is still held by the server
\* (queued, or executed by a queue that was already running).  No step of
\* a client ever takes an item out of the queue: the queue shrinks only
\* when the server executes its head.
C24_SubmitFailsFastNoRollback ==
    /\ [](\A c \in Procs :
            /\ (reqs[c] # << >> /\ reqs[c][1] = <<"add", FALSE>>) =>
                  /\ reqs[c] = << <<"add", FALSE>> >>
                  /\ pc[c] = "done"
                  /\ outcome[c] = "HTTPError"
                  /\ ~Queued(c)
            /\ (Len(reqs[c]) >= 2 /\ reqs[c][2] = <<"start", FALSE>>) =>
                  /\ reqs[c] = << <<"add", TRUE>>, <<"start", FALSE>> >>
                  /\ pc[c] = "done"
                  /\ outcome[c] = "HTTPError"
                  /\ Queued(c) \/ Executed(c))
    /\ [][\/ queue' = queue
          \/ \E it \in {[item_uid |-> next_item + 1, name |-> n] :
                            n \in PlanNames} : queue' = Append(queue, it)
          \/ /\ queue # << >>
             /\ queue' = Tail(queue)
             /\ Len(hist') = Len(hist) + 1
             /\ Last(hist').item_uid = Head(queue).item_uid]_vars

C24_Witness ==
    /\ reqs["c1"] = << <<"add", TRUE>>, <<"start", FALSE>> >>
    /\ outcome["c1"] = "HTTPError"
    /\ Queued("c1")
    /\ ~running
    /\ hist = << >>

\* C25: a history GET that fails is the last request of the call: the wait
\* ends on it with the HTTP error, without a sleep or another fetch after
\* it and with the timeout not yet exceeded, and the failing iteration
\* changes nothing on the server, which still holds the submitted item
\* (in its queue as long as it has not executed it).
C25_HistoryErrorEndsWait ==
    /\ [](\A c \in Procs : \A i \in DOMAIN reqs[c] :
            reqs[c][i] = <<"history", FALSE>> =>
                /\ i = Len(reqs[c])
                /\ pc[c] = "done"
                /\ outcome[c] = "HTTPError"
                /\ result[c] = NoResult
                /\ elapsed[c] <= Timeout
                /\ Fetches(c) = elapsed[c] + 1
                /\ Queued(c) \/ Executed(c))
    /\ [][\A c \in Procs :
            (/\ Len(reqs'[c]) = Len(reqs[c]) + 1
             /\ Last(reqs'[c]) = <<"history", FALSE>>) =>
                /\ pc[c] = "poll"
                /\ pc'[c] = "done"
                /\ UNCHANGED <<serverVars, elapsed, history>>]_vars

C25_Witness ==
    /\ reqs["c1"] = << <<"add", TRUE>>, <<"start", TRUE>>,
                       <<"history", FALSE>> >>
    /\ outcome["c1"] = "HTTPError"
    /\ elapsed["c1"] = 0
    /\ Queued("c1")

\* C26: a scan or a move whose MOTOR_NAME passed the capability's check
\* against AVAILABLE_MOTORS is never rejected by the client's
\* _validate_motor: when the scan a capability called raised ValueError,
\* the motor it passed is in the client's allowlist (the error came from
\* the detectors).
C26_CapabilityMotorAccepted ==
    \A c \in Procs :
        (/\ cap[c] \in {"bl531_scan", "bl531_move"}
         /\ op[c] = "scan"
         /\ outcome[c] = "ValueError")
        => (/\ args[c].motor \in AVAILABLE_MOTORS
            /\ ValidateMotor(args[c].motor))

\* the buckets of a RunData that hold the key
BucketsWith(rd, k) == {b \in BucketNames : k \in DOMAIN rd[b]}

\* C27: the four buckets of the RunData of a real-mode get_run_data are
\* pairwise disjoint; every key of the stream whose handling did not raise
\* is in exactly one bucket, a key whose read raised is in none, and no
\* bucket holds a key that is not in the stream.
C27_BucketsPartitionKeys ==
    /\ [](\A c \in Procs :
            (IsRunData(c) /\ ~data_mock[c]) =>
                \A b1, b2 \in BucketNames :
                    b1 # b2 =>
                        DOMAIN result[c][b1] \cap DOMAIN result[c][b2] = {})
    /\ [][\A c \in Procs : \A keys \in StreamKeys :
             \A failing \in SUBSET (keys \ {K_det_image}) :
               (~data_mock[c] /\ get_run_data(c, TRUE, keys, failing))
               => (/\ \A k \in keys \ failing :
                          Cardinality(BucketsWith(result'[c], k)) = 1
                   /\ \A k \in failing : BucketsWith(result'[c], k) = {}
                   /\ \A k \in KeyUniverse \ keys :
                          BucketsWith(result'[c], k) = {})]_vars

\* "Scaler_mono" matches a detector and a motor pattern and is in the
\* detectors bucket only; the read of "sample_temp" raised
C27_Witness ==
    /\ IsRunData("c1")
    /\ ~data_mock["c1"]
    /\ reads["c1"] = {K_Scaler_mono, K_sample_temp}
    /\ BucketsWith(result["c1"], K_Scaler_mono) = {"detectors"}
    /\ BucketsWith(result["c1"], K_sample_temp) = {}

\* process c is in count([]) or in scan([], motor) with an allowlisted
\* motor, before the add-item POST has been answered
EmptyDetectorsCall(c) ==
    /\ op[c] \in {"count", "scan"}
    /\ pc[c] \in {"add", "done"}
    /\ reqs[c] = << >>
    /\ args[c].detectors = << >>
    /\ op[c] = "scan" => args[c].motor \in BL531_MOTORS

\* C28: an empty detectors list passes the validation: count([]) and
\* scan([], motor) with an allowlisted motor never raise ValueError; in real
\* mode the plan with the empty list is about to be posted, in mock mode
\* the call has returned a mock PlanResult.
C28_EmptyDetectorsAccepted ==
    \A c \in Procs :
        EmptyDetectorsCall(c) =>
            /\ outcome[c] # "ValueError"
            /\ ~mock_mode[c] => (pc[c] = "add" /\ outcome[c] = "none")
            /\ mock_mode[c] =>
                  /\ pc[c] = "done"
                  /\ outcome[c] = "PlanResult"
                  /\ result[c].plan_name = op[c]
                  /\ result[c].run_uid[1] = "uuid"

C28_Witness ==
    /\ EmptyDetectorsCall("c1")
    /\ ~mock_mode["c1"]
    /\ op["c1"] = "scan"
    /\ pc["c1"] = "add"
    /\ args["c1"] = [detectors |-> << >>, motor |-> "gi_angle"]

\* C29: the RunData of a mock-mode get_run_data holds the keys "diode",
\* "gi_angle", "hexapod_motor_Tz_mm_readback" and "det_image", each in the
\* bucket in which a real-mode get_run_data on a stream with these keys
\* stores it, and its images bucket, "det_image" with the availability
\* marker, is equal to the real one.
C29_MockAgreesWithReal ==
    \A c \in Procs :
        (IsRunData(c) /\ data_mock[c]) =>
            LET keys == KeysOf(result[c]) IN
            /\ keys = {K_diode, K_gi_angle, K_hexapod_readback, K_det_image}
            /\ \A b \in BucketNames :
                   DOMAIN result[c][b] = DOMAIN Bucket(b, keys, {})
            /\ result[c].images = Bucket("images", keys, {})
            /\ result[c].images[K_det_image] = Marker

C29_Witness ==
    /\ IsRunData("c1")
    /\ data_mock["c1"]
    /\ reads["c1"] = {}
    /\ DOMAIN result["c1"].motors = {K_gi_angle, K_hexapod_readback}
    /\ DOMAIN result["c1"].detectors = {K_diode}
    /\ result["c1"].images = (K_det_image :> Marker)

====
